---- MODULE Spec2Model ----
(***************************************************************************)
(* Model of scripts/monitor_and_reserve.py: main() and the two polling     *)
(* loops poll_and_reserve (range mode) and poll_and_reserve_exact_train    *)
(* (exact mode).  One step of the model is one blocking call of the script *)
(* (Korail construction, search_train, reserve, login, time.sleep)         *)
(* together with all the Python code that runs up to the next such call;   *)
(* the Telegram message that follows a reservation is part of the reserve  *)
(* step.                                                                   *)
(*                                                                         *)
(* Dates and times are fixed-width zero-padded digit strings in the        *)
(* script; they are modelled by small integers, whose order is the         *)
(* lexicographic order of those strings.  An optional value (end_time,     *)
(* reservation) is the empty sequence for None and a one-element sequence  *)
(* otherwise.                                                              *)
(***************************************************************************)
EXTENDS Integers, Sequences, FiniteSets, TLC

\* ------------------------------------------------------------- bounds ----
\* longest list search_train returns
MaxTrains == 2
\* number of poll cycles a run is followed for
MaxAttempt == 4

\* -------------------------------------------------- program constants ----
\* max(3, ...) of the interval clamp
MinInterval == 3
\* min(interval, 300) of the interval clamp
MaxInterval == 300
\* relogin_attempts > 3
MaxRelogin == 3
\* --limit default
DefaultLimit == 3
\* --interval default
DefaultInterval == 3
\* sys.exit(2): missing credentials
ExitMissing == 2
\* sys.exit(1): login failure, re-login failure, re-login exhausted
ExitLogin == 1
\* status of a Python process that ends by an uncaught exception
ExitUncaught == 1
\* status of a Python process whose main() returns
ExitOk == 0
\* exit_code while the process is running
Running == -1

\* ------------------------------------------------------------ inputs ----
Dates == {1, 2}
Times == {1, 2, 3}
\* the route that is asked for (dep, arr), the date and the time of --time
TargetDep == "A"
TargetArr == "B"
TargetDate == 1
TargetTime == 2

\* what search_train can return: the trains of the route on the target date,
\* with and without general seats, an early train of the route on the next
\* date, and the trains of neighbouring stations that leave at the target
\* date and time
RouteTrains ==
    [dep_date : {TargetDate}, dep_time : Times, dep_name : {TargetDep},
     arr_name : {TargetArr}, general : BOOLEAN]
    \cup
    [dep_date : Dates \ {TargetDate}, dep_time : {1}, dep_name : {TargetDep},
     arr_name : {TargetArr}, general : {TRUE}]

OffRouteTrains ==
    [dep_date : {TargetDate}, dep_time : {TargetTime}, dep_name : {"X"},
     arr_name : {TargetArr}, general : {TRUE}]
    \cup
    [dep_date : {TargetDate}, dep_time : {TargetTime}, dep_name : {TargetDep},
     arr_name : {"X"}, general : {TRUE}]

Trains == RouteTrains \cup OffRouteTrains

SeqsUpTo(S, n) == UNION {[1..k -> S] : k \in 0..n}

SearchResults == SeqsUpTo(Trains, MaxTrains)

\* values of --interval
Intervals == {-1, 0, 1, 2, 3, 60, 300, 301, 1000}
\* values of --limit in range mode
Limits == {-1, 0, 1, 2}
\* values of --end-time in range mode: absent, or a time
EndTimes == {<<>>, <<2>>}
\* resolved id and password: "" is a missing one
Ids == {"", "id"}
Pws == {"", "pw"}
\* resolved Telegram token and chat id: "" is an absent one
Tokens == {"", "tok"}
ChatIds == {"", "chat"}
\* what requests.post does in _notify_telegram: status 200, another status,
\* or an exception
NotifyOutcomes == {"200", "non200", "raise"}

\* a string is a tuple of its characters; the strings of the target date
\* and of the times, as the trains of the service carry them
DateStr(d) ==
    IF d = 1 THEN <<"2", "0", "2", "4", "0", "1", "0", "5">>
             ELSE <<"2", "0", "2", "4", "0", "1", "0", "6">>
TimeStr(t) ==
    CASE t = 1 -> <<"0", "8", "0", "0", "0", "0">>
      [] t = 2 -> <<"0", "9", "0", "0", "0", "0">>
      [] OTHER -> <<"1", "0", "0", "0", "0", "0">>

\* values of --date: the target date, the same between blanks, a date of
\* seven characters, a date of a year before 1000, the 30th of February
RawDates ==
    { DateStr(TargetDate),
      <<" ">> \o DateStr(TargetDate) \o <<" ">>,
      <<"2", "0", "2", "4", "1", "1", "5">>,
      <<"0", "9", "9", "9", "0", "1", "0", "1">>,
      <<"2", "0", "2", "4", "0", "2", "3", "0">> }
\* values of --time: the target time, a time of four characters, second 60
RawTimes ==
    { TimeStr(TargetTime),
      <<"9", "0", "0", "0">>,
      <<"2", "3", "5", "9", "6", "0">> }
\* values of --end-time in range mode: absent (<<>>), a time of five
\* characters, hour 25
RawEndTimes ==
    { <<>>,
      <<"9", "0", "0", "0", "0">>,
      <<"2", "5", "0", "0", "0", "0">> }

\* exceptions a Booking Client call can raise
SearchRaises == {"NoResults", "NeedToLogin", "SoldOut", "Other"}
ReserveRaises == {"SoldOut", "NeedToLogin", "NoResults", "Other"}

VARIABLES
    pc,               \* next blocking call: main, search, reserve, login, sleep, done
    korail_id,        \* main: korail_id
    korail_pw,        \* main: korail_pw
    exact,            \* args.exact
    limit,            \* args.limit / limit
    end_time,         \* args.end_time / end_time
    telegram_token,   \* main: telegram_token
    telegram_chat_id, \* main: telegram_chat_id
    interval,         \* args.interval, then the local interval of the loop
    constructed,      \* Korail(...) has been constructed
    attempt,          \* attempt
    relogin_attempts, \* relogin_attempts
    found,            \* what search_train returned in this cycle
    trains,           \* range: trains (the shortlist); exact: candidates
    idx,              \* position in trains of the train being reserved
    reservation,      \* value returned by the loop
    exit_code,        \* process exit status, Running before the exit
    cause,            \* why the process ended
    last,             \* the last blocking call and its outcome
    slept,            \* seconds of the last time.sleep call (0: none yet)
    n_expired,        \* NeedToLoginError exceptions raised in the loop
    n_login,          \* korail.login() calls made by the loop
    n_reserved,       \* reserve calls that returned a Reservation
    notified,         \* outcome of the Telegram message ("none": not sent)
    n_notify,         \* _notify_telegram calls
    args_date,        \* args.date
    args_dep_time,    \* args.dep_time
    args_end_time,    \* args.end_time (<<>>: None or "")
    query,            \* the locals date, dep_time and end_time of the loop
                      \* function once validated (<<>> before)
    sent              \* the (date, time) pairs passed to search_train

vars == <<pc, korail_id, korail_pw, exact, limit, end_time, interval,
          constructed, attempt, relogin_attempts, found, trains, idx,
          reservation, exit_code, cause, last, slept, n_expired, n_login,
          n_reserved, telegram_token, telegram_chat_id, notified, n_notify,
          args_date, args_dep_time, args_end_time, query, sent>>

config == <<korail_id, korail_pw, exact, limit, end_time, telegram_token,
            telegram_chat_id, args_date, args_dep_time, args_end_time>>

Call(op, out, t) == [op |-> op, out |-> out, train |-> t]

\* ---------------------------------------------------- pure functions ----
\* --------------------------------- strptime, strftime and validation ----
Digits == <<"0", "1", "2", "3", "4", "5", "6", "7", "8", "9">>
\* the character classes \d, [1-9] and [0-5] of the strptime patterns
D09 == {Digits[n] : n \in 1..10}
D19 == D09 \ {"0"}
D05 == {Digits[n] : n \in 1..6}

DigitVal(c) == (CHOOSE n \in 1..10 : Digits[n] = c) - 1

\* the character of s at position p; "$" stands for the end of the string
At(s, p) == IF p \in 1..Len(s) THEN s[p] ELSE "$"

\* str.strip(): the string without its leading and trailing blanks
Strip(s) ==
    LET keep == {i \in 1..Len(s) : s[i] # " "} IN
    IF keep = {} THEN <<>>
    ELSE SubSeq(s, CHOOSE i \in keep : \A j \in keep : i <= j,
                   CHOOSE i \in keep : \A j \in keep : i >= j)

\* the patterns of the directives, as _strptime.TimeRE defines them: each is
\* a list of alternatives in the order the regular expression tries them,
\* and an alternative is a list of character classes
\*   %Y  \d\d\d\d
ReY == << <<D09, D09, D09, D09>> >>
\*   %m  1[0-2]|0[1-9]|[1-9]
Rem == << <<{"1"}, {"0", "1", "2"}>>, <<{"0"}, D19>>, <<D19>> >>
\*   %d  3[0-1]|[1-2]\d|0[1-9]|[1-9]| [1-9]
Red == << <<{"3"}, {"0", "1"}>>, <<{"1", "2"}, D09>>, <<{"0"}, D19>>, <<D19>>,
          <<{" "}, D19>> >>
\*   %H  2[0-3]|[0-1]\d|\d
ReH == << <<{"2"}, {"0", "1", "2", "3"}>>, <<{"0", "1"}, D09>>, <<D09>> >>
\*   %M  [0-5]\d|\d
ReM == << <<D05, D09>>, <<D09>> >>
\*   %S  6[0-1]|[0-5]\d|\d
ReS == << <<{"6"}, {"0", "1"}>>, <<D05, D09>>, <<D09>> >>

\* alternative alt matches s at position p
Fits(s, p, alt) == \A i \in 1..Len(alt) : At(s, p + i - 1) \in alt[i]

\* the choices of one alternative per directive with which the pattern
\* r1 r2 r3 matches a prefix of s
Matches(s, r1, r2, r3) ==
    {k \in (1..Len(r1)) \X (1..Len(r2)) \X (1..Len(r3)) :
        /\ Fits(s, 1, r1[k[1]])
        /\ Fits(s, 1 + Len(r1[k[1]]), r2[k[2]])
        /\ Fits(s, 1 + Len(r1[k[1]]) + Len(r2[k[2]]), r3[k[3]])}

\* k comes before j, or is j, in the order of the backtracking search
LexLeq(k, j) ==
    \/ k[1] < j[1]
    \/ k[1] = j[1] /\ k[2] < j[2]
    \/ k[1] = j[1] /\ k[2] = j[2] /\ k[3] <= j[3]

\* format_regex.match(data_string): <<>> when nothing matches, else the
\* three groups of the first match and the position where it ends
ReMatch(s, r1, r2, r3) ==
    LET M == Matches(s, r1, r2, r3) IN
    IF M = {} THEN <<>>
    ELSE LET k == CHOOSE x \in M : \A j \in M : LexLeq(x, j)
             w1 == Len(r1[k[1]])
             w2 == Len(r2[k[2]])
             w3 == Len(r3[k[3]])
         IN  <<[g1 |-> SubSeq(s, 1, w1),
                g2 |-> SubSeq(s, w1 + 1, w1 + w2),
                g3 |-> SubSeq(s, w1 + w2 + 1, w1 + w2 + w3),
                end |-> w1 + w2 + w3]>>

\* int(group): a leading blank of %d counts for nothing
RECURSIVE Num(_)
Num(g) ==
    IF g = <<>> THEN 0
    ELSE Num(SubSeq(g, 1, Len(g) - 1)) * 10
         + (IF g[Len(g)] = " " THEN 0 ELSE DigitVal(g[Len(g)]))

IsLeap(y) == y % 4 = 0 /\ (y % 100 # 0 \/ y % 400 = 0)

DaysIn(y, m) ==
    IF m \in {4, 6, 9, 11} THEN 30
    ELSE IF m = 2 THEN (IF IsLeap(y) THEN 29 ELSE 28)
    ELSE 31

\* datetime.strptime(s, "%Y%m%d"): <<>> is a ValueError (no match,
\* unconverted data remains, year 0, day out of range for month)
StrptimeDate(s) ==
    LET m == ReMatch(s, ReY, Rem, Red) IN
    IF m = <<>> THEN <<>>
    ELSE LET year == Num(m[1].g1)
             month == Num(m[1].g2)
             day == Num(m[1].g3)
         IN  IF m[1].end # Len(s) \/ year < 1 \/ day > DaysIn(year, month)
             THEN <<>>
             ELSE <<[year |-> year, month |-> month, day |-> day]>>

\* datetime.strptime(s, "%H%M%S"): <<>> is a ValueError (no match,
\* unconverted data remains, second 60 or 61)
StrptimeTime(s) ==
    LET m == ReMatch(s, ReH, ReM, ReS) IN
    IF m = <<>> THEN <<>>
    ELSE LET second == Num(m[1].g3) IN
         IF m[1].end # Len(s) \/ second > 59
         THEN <<>>
         ELSE <<[hour |-> Num(m[1].g1), minute |-> Num(m[1].g2),
                 second |-> second]>>

Pad2(n) == <<Digits[(n \div 10) + 1], Digits[(n % 10) + 1]>>
Pad4(n) == Pad2(n \div 100) \o Pad2(n % 100)
\* the decimal digits of n >= 1 without leading zeros
Unpadded(n) ==
    LET p == Pad4(n)
        first == CHOOSE i \in 1..4 : p[i] # "0" /\ \A j \in 1..(i - 1) : p[j] = "0"
    IN  SubSeq(p, first, 4)

\* strftime("%Y%m%d"): what %Y gives for a year before 1000 depends on the
\* C library (glibc gives the year without leading zeros, others pad it
\* to four digits), so both strings are outcomes
StrftimeDate(dt) ==
    {y \o Pad2(dt.month) \o Pad2(dt.day) :
        y \in {Pad4(dt.year)} \cup
              (IF dt.year < 1000 THEN {Unpadded(dt.year)} ELSE {})}

\* strftime("%H%M%S")
StrftimeTime(t) == Pad2(t.hour) \o Pad2(t.minute) \o Pad2(t.second)

\* _validate_date: the strings it can return; none when it raises
validate_date(s) ==
    IF StrptimeDate(s) = <<>> THEN {} ELSE StrftimeDate(StrptimeDate(s)[1])

\* _validate_time: the string it returns; none when it raises
validate_time(s) ==
    IF StrptimeTime(s) = <<>> THEN {} ELSE {StrftimeTime(StrptimeTime(s)[1])}

\* the end time of the filter as one of Times, for a value of --end-time
\* whose validated string is the string of one of them
EndOf(raw) ==
    IF raw = <<>> THEN <<>>
    ELSE LET v == validate_time(Strip(raw)) IN
         IF \E k \in Times : TimeStr(k) \in v
         THEN <<CHOOSE k \in Times : TimeStr(k) \in v>>
         ELSE <<>>

Min(a, b) == IF a <= b THEN a ELSE b
Max(a, b) == IF a >= b THEN a ELSE b

\* the clamp without its lower bound
Clamp_NoFloor(i) == Min(i, MaxInterval)

\* interval = max(3, min(interval, 300))
Clamp(i) == Max(MinInterval, Min(i, MaxInterval))

\* t.dep_time <= end_time
BeforeEnd(t, e) == t.dep_time <= e

\* the end-time filter left out
FilterEnd_Skipped(ts, e) == ts

\* if end_time: trains = [t for t in trains if t.dep_time <= end_time]
FilterEnd(ts, e) ==
    IF e = <<>> THEN ts
    ELSE LET Keep(t) == BeforeEnd(t, e[1]) IN SelectSeq(ts, Keep)

\* a seat check that never sees a seat
HasGeneralSeat_Never(t) == FALSE

\* a seat check that always sees a seat
HasGeneralSeat_Always(t) == TRUE

\* t.has_general_seat()
HasGeneralSeat(t) == t.general

\* trains = [t for t in trains if t.has_general_seat()]
FilterGeneral(ts) == SelectSeq(ts, HasGeneralSeat)

\* a sort key without the date
KeyLeq_TimeOnly(a, b) == a.dep_time <= b.dep_time

\* (a.dep_date, a.dep_time) <= (b.dep_date, b.dep_time)
KeyLeq(a, b) ==
    \/ a.dep_date < b.dep_date
    \/ a.dep_date = b.dep_date /\ a.dep_time <= b.dep_time

\* insertion of t after every element whose key is not greater (stable)
RECURSIVE Insert(_, _)
Insert(t, ts) ==
    IF ts = <<>> THEN <<t>>
    ELSE IF KeyLeq(Head(ts), t) THEN <<Head(ts)>> \o Insert(t, Tail(ts))
         ELSE <<t>> \o ts

\* trains.sort(key=lambda t: (t.dep_date, t.dep_time)): a stable sort
RECURSIVE SortTrains(_)
SortTrains(ts) ==
    IF ts = <<>> THEN <<>>
    ELSE Insert(ts[Len(ts)], SortTrains(SubSeq(ts, 1, Len(ts) - 1)))

\* trains[:limit], a Python slice: a negative limit counts from the end
Truncate(ts, lim) ==
    IF lim >= 0 THEN SubSeq(ts, 1, Min(lim, Len(ts)))
    ELSE SubSeq(ts, 1, Max(Len(ts) + lim, 0))

\* the shortlist of one range-mode cycle
Shortlist(ts, lim, e) == Truncate(SortTrains(FilterGeneral(FilterEnd(ts, e))), lim)

\* the exact-mode condition without the departure station
IsExactTrain_NoDepName(t) ==
    /\ query # <<>>
    /\ DateStr(t.dep_date) = query[1].date
    /\ TimeStr(t.dep_time) = query[1].dep_time
    /\ t.arr_name = TargetArr

\* the condition of the exact-mode list comprehension: the train carries
\* the validated date and time of the query
IsExactTrain(t) ==
    /\ query # <<>>
    /\ DateStr(t.dep_date) = query[1].date
    /\ TimeStr(t.dep_time) = query[1].dep_time
    /\ t.dep_name = TargetDep
    /\ t.arr_name = TargetArr

\* candidates = [t for t in trains if ...]
ExactCandidates(ts) == SelectSeq(ts, IsExactTrain)

\* the threshold test off by one
ReloginExhausted_OffByOne(n) == n > MaxRelogin + 1

\* if relogin_attempts > 3
ReloginExhausted(n) == n > MaxRelogin

\* the credentials check with and for or
MissingCredentials_Both(id, pw) == id = "" /\ pw = ""

\* not korail_id or not korail_pw
MissingCredentials(id, pw) == id = "" \/ pw = ""

\* ---------------------------------------------------- initial state ----
\* the process before main has run
Start ==
    /\ pc = "main"
    /\ constructed = FALSE
    /\ attempt = 0
    /\ relogin_attempts = 0
    /\ found = <<>>
    /\ trains = <<>>
    /\ idx = 0
    /\ reservation = <<>>
    /\ exit_code = Running
    /\ cause = "none"
    /\ last = Call("none", "none", <<>>)
    /\ slept = 0
    /\ n_expired = 0
    /\ n_login = 0
    /\ n_reserved = 0
    /\ notified = "none"
    /\ n_notify = 0
    /\ query = <<>>
    /\ sent = {}

\* --date and --time are the target date and time as the service writes
\* them, and --end-time, where given, is the string of the end time
TargetArgs ==
    /\ args_date = DateStr(TargetDate)
    /\ args_dep_time = TimeStr(TargetTime)
    /\ args_end_time = (IF end_time = <<>> THEN <<>> ELSE TimeStr(end_time[1]))

\* runs without Telegram, for every mode, limit, end time and interval
Init ==
    /\ Start
    /\ korail_id \in Ids
    /\ korail_pw \in Pws
    /\ exact \in BOOLEAN
    /\ limit \in (IF exact THEN {DefaultLimit} ELSE Limits)
    /\ end_time \in (IF exact THEN {<<>>} ELSE EndTimes)
    /\ interval \in Intervals
    /\ telegram_token = ""
    /\ telegram_chat_id = ""
    /\ TargetArgs

\* runs with and without Telegram token and chat id, with the default
\* interval and no end time
NotifyInit ==
    /\ Start
    /\ korail_id \in Ids
    /\ korail_pw \in Pws
    /\ exact \in BOOLEAN
    /\ limit \in (IF exact THEN {DefaultLimit} ELSE Limits)
    /\ end_time = <<>>
    /\ interval = DefaultInterval
    /\ telegram_token \in Tokens
    /\ telegram_chat_id \in ChatIds
    /\ TargetArgs

\* runs for every value of --date, --time and --end-time, with the default
\* limit and interval and without Telegram
QueryInit ==
    /\ Start
    /\ korail_id \in Ids
    /\ korail_pw \in Pws
    /\ exact \in BOOLEAN
    /\ limit = DefaultLimit
    /\ interval = DefaultInterval
    /\ telegram_token = ""
    /\ telegram_chat_id = ""
    /\ args_date \in RawDates
    /\ args_dep_time \in RawTimes
    /\ args_end_time \in (IF exact THEN {<<>>} ELSE RawEndTimes)
    /\ end_time = EndOf(args_end_time)

\* ------------------------------------------------------- transitions ----
\* sys.exit(code), or the end of the process by an uncaught exception
Exit(code, why) ==
    /\ pc' = "done"
    /\ exit_code' = code
    /\ cause' = why

\* an iteration that goes to the next one without time.sleep
ToSleep_Skipped ==
    /\ pc' = "search"
    /\ UNCHANGED <<exit_code, cause>>

\* the rest of the iteration after the try statement: time.sleep comes next
ToSleep ==
    /\ pc' = "sleep"
    /\ UNCHANGED <<exit_code, cause>>

\* except NeedToLoginError: up to the korail.login() call
OnNeedToLogin ==
    /\ n_expired' = n_expired + 1
    /\ relogin_attempts' = relogin_attempts + 1
    /\ IF ReloginExhausted(relogin_attempts + 1)
       THEN Exit(ExitLogin, "relogin_exhausted")
       ELSE /\ pc' = "login"
            /\ UNCHANGED <<exit_code, cause>>

\* main: the credentials check
MainMissingCredentials ==
    /\ pc = "main"
    /\ MissingCredentials(korail_id, korail_pw)
    /\ Exit(ExitMissing, "missing_credentials")
    /\ UNCHANGED <<config, query, sent, interval, constructed, attempt, relogin_attempts,
                   found, trains, idx, reservation, last, slept, n_expired,
                   n_login, n_reserved, notified, n_notify>>

\* the entry of the loop function: date, dep_time and (range mode) end_time
\* are stripped and validated, then the interval is clamped.  A ValueError
\* of a validation is not caught anywhere and ends the process.
EnterLoop ==
    LET dates == validate_date(Strip(args_date))
        times == validate_time(Strip(args_dep_time))
        ends == IF exact \/ args_end_time = <<>>
                THEN {<<>>}
                ELSE {<<e>> : e \in validate_time(Strip(args_end_time))}
    IN  IF dates = {} \/ times = {} \/ ends = {}
        THEN /\ Exit(ExitUncaught, "uncaught")
             /\ UNCHANGED <<interval, query>>
        ELSE /\ \E d \in dates, t \in times, e \in ends :
                  query' = <<[date |-> d, dep_time |-> t, end_time |-> e]>>
             /\ interval' = Clamp(interval)
             /\ pc' = "search"
             /\ UNCHANGED <<exit_code, cause>>

\* main: Korail(id, pw, auto_login=True), the logined check and the entry of
\* the loop function up to its first search
MainLogin ==
    /\ pc = "main"
    /\ ~MissingCredentials(korail_id, korail_pw)
    /\ constructed' = TRUE
    /\ \E out \in {"True", "False", "raise"} :
         /\ last' = Call("construct", out, <<>>)
         /\ CASE out = "True" ->
                   EnterLoop
              [] out = "False" ->
                   /\ Exit(ExitLogin, "login_failed")
                   /\ UNCHANGED <<interval, query>>
              [] out = "raise" ->
                   /\ Exit(ExitUncaught, "uncaught")
                   /\ UNCHANGED <<interval, query>>
    /\ UNCHANGED <<config, sent, attempt, relogin_attempts, found, trains, idx,
                   reservation, slept, n_expired, n_login, n_reserved,
                   notified, n_notify>>

\* poll_and_reserve: attempt += 1, search_train, the selection of the
\* shortlist, and the handlers of what search_train raises
Search ==
    /\ pc = "search"
    /\ ~exact
    /\ attempt < MaxAttempt
    /\ attempt' = attempt + 1
    /\ sent' = sent \cup {<<query[1].date, query[1].dep_time>>}
    /\ \/ \E ts \in SearchResults :
            LET sl == Shortlist(ts, limit, end_time) IN
            /\ last' = Call("search", "ok", <<>>)
            /\ found' = ts
            /\ trains' = sl
            /\ IF sl = <<>>
               THEN ToSleep /\ idx' = 0
               ELSE /\ pc' = "reserve"
                    /\ idx' = 1
                    /\ UNCHANGED <<exit_code, cause>>
            /\ UNCHANGED <<relogin_attempts, n_expired>>
       \/ \E e \in SearchRaises :
            /\ last' = Call("search", e, <<>>)
            /\ IF e = "NeedToLogin"
               THEN OnNeedToLogin
               ELSE ToSleep /\ UNCHANGED <<relogin_attempts, n_expired>>
            /\ UNCHANGED <<found, trains, idx>>
    /\ UNCHANGED <<config, query, interval, constructed, reservation, slept,
                   n_login, n_reserved, notified, n_notify>>

\* a sold-out candidate ending the cycle, as in exact mode
AfterSoldOut_EndsCycle == ToSleep /\ UNCHANGED idx

\* a SoldOutError that nothing catches
AfterSoldOut_Fatal == Exit(ExitUncaught, "uncaught") /\ UNCHANGED idx

\* what follows except SoldOutError of the inner try: continue
AfterSoldOut ==
    IF idx < Len(trains)
    THEN /\ idx' = idx + 1
         /\ pc' = "reserve"
         /\ UNCHANGED <<exit_code, cause>>
    ELSE ToSleep /\ UNCHANGED idx

\* the message sent when only one of token and chat id is there
NotifyConfigured_Either(tok, chat) == tok # "" \/ chat # ""

\* if telegram_token and telegram_chat_id
NotifyConfigured(tok, chat) == tok # "" /\ chat # ""

\* _notify_telegram without its try statement: the exception of
\* requests.post reaches the except Exception clause of the loop
AfterNotify_Propagates(r) ==
    IF r = "raise" THEN ToSleep ELSE Exit(ExitOk, "reserved")

\* _notify_telegram logs a status other than 200 and catches every
\* exception; return reservation follows, and main returns
AfterNotify(r) == Exit(ExitOk, "reserved")

\* the Telegram message of a reservation, and the return
Notify ==
    IF NotifyConfigured(telegram_token, telegram_chat_id)
    THEN /\ n_notify' = n_notify + 1
         /\ \E r \in NotifyOutcomes :
              /\ notified' = r
              /\ AfterNotify(r)
    ELSE /\ UNCHANGED <<notified, n_notify>>
         /\ AfterNotify("none")

\* the loop going on after a reservation
Reserved_GoesOn(t) ==
    /\ reservation' = <<t>>
    /\ n_reserved' = n_reserved + 1
    /\ UNCHANGED <<notified, n_notify>>
    /\ ToSleep

\* the reservation that korail.reserve returned, up to return reservation
Reserved(t) ==
    /\ reservation' = <<t>>
    /\ n_reserved' = n_reserved + 1
    /\ Notify

\* an inner try that catches every exception but NeedToLoginError and
\* goes on with the next train
Reserve_CatchesAll ==
    /\ pc = "reserve"
    /\ ~exact
    /\ LET t == trains[idx] IN
       \/ /\ last' = Call("reserve", "ok", <<t>>)
          /\ Reserved(t)
          /\ UNCHANGED <<idx, relogin_attempts, n_expired>>
       \/ \E e \in ReserveRaises :
            /\ last' = Call("reserve", e, <<t>>)
            /\ CASE e = "NeedToLogin" ->
                      OnNeedToLogin /\ UNCHANGED idx
                 [] OTHER ->
                      AfterSoldOut /\ UNCHANGED <<relogin_attempts, n_expired>>
            /\ UNCHANGED <<reservation, n_reserved, notified, n_notify>>
    /\ UNCHANGED <<config, query, sent, interval, constructed, attempt, found, trains,
                   slept, n_login>>

\* poll_and_reserve: korail.reserve on the next train of the shortlist
Reserve ==
    /\ pc = "reserve"
    /\ ~exact
    /\ LET t == trains[idx] IN
       \/ /\ last' = Call("reserve", "ok", <<t>>)
          /\ Reserved(t)
          /\ UNCHANGED <<idx, relogin_attempts, n_expired>>
       \/ \E e \in ReserveRaises :
            /\ last' = Call("reserve", e, <<t>>)
            /\ CASE e = "SoldOut" ->
                      AfterSoldOut /\ UNCHANGED <<relogin_attempts, n_expired>>
                 [] e = "NeedToLogin" ->
                      OnNeedToLogin /\ UNCHANGED idx
                 [] OTHER ->
                      ToSleep /\ UNCHANGED <<idx, relogin_attempts, n_expired>>
            /\ UNCHANGED <<reservation, n_reserved, notified, n_notify>>
    /\ UNCHANGED <<config, query, sent, interval, constructed, attempt, found, trains,
                   slept, n_login>>

\* poll_and_reserve_exact_train: attempt += 1, search_train with
\* include_no_seats, the selection of the exact train and its seat check
SearchExact ==
    /\ pc = "search"
    /\ exact
    /\ attempt < MaxAttempt
    /\ attempt' = attempt + 1
    /\ sent' = sent \cup {<<query[1].date, query[1].dep_time>>}
    /\ \/ \E ts \in SearchResults :
            LET candidates == ExactCandidates(ts) IN
            /\ last' = Call("search", "ok", <<>>)
            /\ found' = ts
            /\ trains' = candidates
            /\ IF candidates = <<>>
               THEN ToSleep /\ idx' = 0
               ELSE /\ idx' = 1
                    /\ IF ~HasGeneralSeat(candidates[1])
                       THEN ToSleep
                       ELSE /\ pc' = "reserve"
                            /\ UNCHANGED <<exit_code, cause>>
            /\ UNCHANGED <<relogin_attempts, n_expired>>
       \/ \E e \in SearchRaises :
            /\ last' = Call("search", e, <<>>)
            /\ IF e = "NeedToLogin"
               THEN OnNeedToLogin
               ELSE ToSleep /\ UNCHANGED <<relogin_attempts, n_expired>>
            /\ UNCHANGED <<found, trains, idx>>
    /\ UNCHANGED <<config, query, interval, constructed, reservation, slept,
                   n_login, n_reserved, notified, n_notify>>

\* poll_and_reserve_exact_train: korail.reserve(train) of candidates[0]
ReserveExact ==
    /\ pc = "reserve"
    /\ exact
    /\ LET t == trains[idx] IN
       \/ /\ last' = Call("reserve", "ok", <<t>>)
          /\ Reserved(t)
          /\ UNCHANGED <<relogin_attempts, n_expired>>
       \/ \E e \in ReserveRaises :
            /\ last' = Call("reserve", e, <<t>>)
            /\ IF e = "NeedToLogin"
               THEN OnNeedToLogin
               ELSE ToSleep /\ UNCHANGED <<relogin_attempts, n_expired>>
            /\ UNCHANGED <<reservation, n_reserved, notified, n_notify>>
    /\ UNCHANGED <<config, query, sent, interval, constructed, attempt, found, trains,
                   idx, slept, n_login>>

\* a successful re-login that goes to the next search without the sleep
AfterLogin_NoSleep(out) ==
    CASE out = "True" -> pc' = "search" /\ UNCHANGED <<exit_code, cause>>
      [] out = "False" -> Exit(ExitLogin, "relogin_failed")
      [] out = "raise" -> Exit(ExitUncaught, "uncaught")

\* a failed re-login that lets the loop go on
AfterLogin_IgnoresFalse(out) ==
    CASE out = "True" -> ToSleep
      [] out = "False" -> ToSleep
      [] out = "raise" -> Exit(ExitUncaught, "uncaught")

\* what follows korail.login() in the NeedToLoginError handler.  The call
\* is made inside the except clause, so an exception it raises is not
\* caught by the except Exception clause of the same try statement.
AfterLogin(out) ==
    CASE out = "True" -> ToSleep
      [] out = "False" -> Exit(ExitLogin, "relogin_failed")
      [] out = "raise" -> Exit(ExitUncaught, "uncaught")

\* both loops: korail.login() of the NeedToLoginError handler
Login ==
    /\ pc = "login"
    /\ n_login' = n_login + 1
    /\ \E out \in {"True", "False", "raise"} :
         /\ last' = Call("login", out, <<>>)
         /\ AfterLogin(out)
    /\ UNCHANGED <<config, query, sent, interval, constructed, attempt, relogin_attempts,
                   found, trains, idx, reservation, slept, n_expired,
                   n_reserved, notified, n_notify>>

\* a loop that forgets its re-logins after every cycle
Sleep_ResetsCounter ==
    /\ pc = "sleep"
    /\ slept' = interval
    /\ last' = Call("sleep", "ok", <<>>)
    /\ pc' = "search"
    /\ found' = <<>>
    /\ trains' = <<>>
    /\ idx' = 0
    /\ relogin_attempts' = 0
    /\ UNCHANGED <<config, query, sent, interval, constructed, attempt, reservation,
                   exit_code, cause, n_expired, n_login, n_reserved,
                   notified, n_notify>>

\* both loops: time.sleep(interval); the trains of the cycle are dropped
Sleep ==
    /\ pc = "sleep"
    /\ slept' = interval
    /\ last' = Call("sleep", "ok", <<>>)
    /\ pc' = "search"
    /\ found' = <<>>
    /\ trains' = <<>>
    /\ idx' = 0
    /\ UNCHANGED <<config, query, sent, interval, constructed, attempt, relogin_attempts,
                   reservation, exit_code, cause, n_expired, n_login,
                   n_reserved, notified, n_notify>>

Next ==
    \/ MainMissingCredentials
    \/ MainLogin
    \/ Search
    \/ Reserve
    \/ SearchExact
    \/ ReserveExact
    \/ Login
    \/ Sleep

Spec == Init /\ [][Next]_vars

NotifySpec == NotifyInit /\ [][Next]_vars

QuerySpec == QueryInit /\ [][Next]_vars

\* ------------------------------------------- exact mode, seats opening ----
\* the polls of a run before the target train has seats for good
FreePolls == MaxAttempt - 1

\* ts holds the target train, and with general seats wherever it holds it
SeatsOpen(ts) ==
    /\ \E i \in 1..Len(ts) : IsExactTrain(ts[i])
    /\ \A i \in 1..Len(ts) : IsExactTrain(ts[i]) => ts[i].general

\* the search step of exact mode; after the free polls search_train
\* returns the target train with general seats
SearchExactOpen ==
    /\ SearchExact
    /\ attempt >= FreePolls => (last'.out = "ok" /\ SeatsOpen(found'))

\* the reserve step of exact mode; after the free polls reserve succeeds
ReserveExactOpen ==
    /\ ReserveExact
    /\ attempt > FreePolls => last'.out = "ok"

\* exact-mode runs
LiveInit == Init /\ exact

LiveNext ==
    \/ MainMissingCredentials
    \/ MainLogin
    \/ SearchExactOpen
    \/ ReserveExactOpen
    \/ Login
    \/ Sleep

\* the process is a single thread that goes on as long as it has a next
\* statement
LiveSpec == LiveInit /\ [][LiveNext]_vars /\ WF_vars(LiveNext)

TypeOK ==
    /\ pc \in {"main", "search", "reserve", "login", "sleep", "done"}
    /\ attempt \in 0..MaxAttempt
    /\ relogin_attempts \in 0..(MaxRelogin + 1)
    /\ idx \in 0..MaxTrains
    /\ pc = "reserve" => idx \in 1..Len(trains)

\* the loop function has been entered
InLoop == pc \in {"search", "reserve", "login", "sleep"} \/ attempt >= 1

\* ts is ordered non-decreasing by (dep_date, dep_time)
IsSorted(ts) ==
    \A i \in 1..(Len(ts) - 1) :
       \/ ts[i].dep_date < ts[i + 1].dep_date
       \/ ts[i].dep_date = ts[i + 1].dep_date
          /\ ts[i].dep_time <= ts[i + 1].dep_time

\* ------------------------------------------------------------ claims ----

\* C1: in both modes at most one reserve call returns a Reservation; as soon
\* as one has, the run has ended with that Reservation (exit 0), and no
\* step (search, reserve, login, sleep) is taken from then on.
C1_OneReservation ==
    /\ [](n_reserved <= 1)
    /\ [](n_reserved = 1 =>
            /\ pc = "done"
            /\ exit_code = 0
            /\ last.op = "reserve" /\ last.out = "ok"
            /\ reservation = last.train)
    /\ [][n_reserved = 0]_vars

\* a range-mode run that reserved the second train of its shortlist
C1_Witness ==
    /\ ~exact
    /\ n_reserved = 1
    /\ pc = "done"
    /\ idx = 2

\* C2: the loop calls login at most 3 times; the 4th NeedToLoginError of a
\* run ends the process with a non-zero exit code and without a 4th login,
\* also when the three logins before it all succeeded.
C2_AtMostThreeLogins ==
    /\ n_login <= 3
    /\ n_expired >= 4 =>
         /\ n_expired = 4
         /\ pc = "done"
         /\ exit_code \notin {Running, 0}
         /\ n_login = 3

\* the 4th NeedToLoginError after three successful re-logins
C2_Witness ==
    /\ n_expired = 4
    /\ n_login = 3
    /\ pc = "done"

\* C3: a re-login that returns false ends the process at once with exit
\* code 1; no login, search, reserve or sleep follows it.
C3_FailedReloginIsFatal ==
    /\ [](last.op = "login" /\ last.out = "False" =>
            pc = "done" /\ exit_code = 1)
    /\ [][~(last.op = "login" /\ last.out = "False")]_vars

\* a re-login that returned false
C3_Witness ==
    /\ last.op = "login"
    /\ last.out = "False"
    /\ relogin_attempts <= 3

\* C4 (as claimed): an unclassified failure of search, reserve or the
\* re-login is swallowed and followed by the sleep; a run inside the loop
\* ends unsuccessfully only by the two fatal paths.
C4_NoCrashInLoop ==
    /\ (last.op \in {"search", "reserve", "login"}
          /\ last.out \in {"Other", "raise"}) => pc = "sleep"
    /\ (pc = "done" /\ InLoop) =>
          cause \in {"reserved", "relogin_exhausted", "relogin_failed"}

\* C5: exit code 0 when a loop returned a Reservation; 1 when the initial
\* login or a re-login failed or the re-logins are exhausted; 2 when the
\* id or the password is missing, and then nothing was constructed, logged
\* in or searched; an initial login failure comes before any search.
C5_ExitCodes ==
    /\ reservation # <<>> => pc = "done" /\ exit_code = 0
    /\ (last.op \in {"construct", "login"} /\ last.out = "False") =>
          pc = "done" /\ exit_code = 1
    /\ (last.op = "construct" /\ last.out = "False") => attempt = 0
    /\ n_expired > 3 => pc = "done" /\ exit_code = 1
    /\ ((korail_id = "" \/ korail_pw = "") /\ pc # "main") =>
          /\ pc = "done"
          /\ exit_code = 2
          /\ ~constructed
          /\ last.op = "none"
          /\ attempt = 0 /\ n_login = 0

\* a run with an id and no password, ended with exit code 2
C5_Witness ==
    /\ korail_id # ""
    /\ korail_pw = ""
    /\ pc = "done"
    /\ exit_code = 2

\* C6 (as claimed): in range mode, for every limit, the shortlist that is
\* attempted has at most limit trains, all with general seats, ordered
\* non-decreasing by (dep_date, dep_time).
C6_ShortlistWithinLimit ==
    (~exact /\ pc = "reserve") =>
       /\ Len(trains) <= limit
       /\ \A i \in 1..Len(trains) : trains[i].general
       /\ IsSorted(trains)

\* C7: in range mode with an end time, reserve is never attempted on a
\* train that leaves after the end time, in any cycle.
C7_NoTrainAfterEnd ==
    (~exact /\ end_time # <<>> /\ last.op = "reserve") =>
       last.train[1].dep_time <= end_time[1]

\* a reserve call, in a later cycle, on a train leaving at the end time,
\* found together with a train leaving after it
C7_Witness ==
    /\ ~exact
    /\ end_time # <<>>
    /\ attempt >= 2
    /\ last.op = "reserve"
    /\ last.train[1].dep_time = end_time[1]
    /\ \E i \in 1..Len(found) :
          found[i].general /\ found[i].dep_time > end_time[1]

\* C8: in exact mode a cycle selects at most one train, and only one whose
\* date, time, departure and arrival station equal the targets; when no
\* train of the search result matches, the cycle makes no reserve call and
\* goes to the sleep as a cycle without results.
C8_ExactMatchOnly ==
    exact =>
       /\ idx <= 1
       /\ (pc = "reserve" \/ last.op = "reserve") =>
             /\ idx = 1
             /\ trains[1] \in {found[i] : i \in 1..Len(found)}
             /\ trains[1].dep_date = TargetDate
             /\ trains[1].dep_time = TargetTime
             /\ trains[1].dep_name = TargetDep
             /\ trains[1].arr_name = TargetArr
       /\ last.op = "reserve" => last.train = <<trains[1]>>
       /\ (last.op = "search" /\ last.out = "ok"
             /\ ~\E i \in 1..Len(found) :
                   /\ found[i].dep_date = TargetDate
                   /\ found[i].dep_time = TargetTime
                   /\ found[i].dep_name = TargetDep
                   /\ found[i].arr_name = TargetArr) =>
             pc = "sleep" /\ trains = <<>>

\* an exact-mode reserve call on the target train, found after a train of
\* a neighbouring departure station with the same date and time
C8_Witness ==
    /\ exact
    /\ last.op = "reserve"
    /\ Len(found) = 2
    /\ found[1].dep_name # TargetDep
    /\ found[1].dep_time = TargetTime
    /\ found[1].dep_date = TargetDate
    /\ last.train = <<found[2]>>

\* C9: in range mode a SoldOut of reserve does not end the cycle: when a
\* next train is in the shortlist the next step is the reserve call on it
\* (the shortlist is tried in order, earliest first), with no sleep and no
\* search in between; the sleep follows only the last train.
C9_SoldOutMovesOn ==
    /\ []((~exact /\ last.op = "reserve" /\ last.out = "SoldOut") =>
            \/ /\ pc = "reserve"
               /\ idx >= 2
               /\ <<trains[idx - 1]>> = last.train
               /\ IsSorted(<<trains[idx - 1], trains[idx]>>)
            \/ /\ pc = "sleep"
               /\ idx = Len(trains)
               /\ <<trains[idx]>> = last.train)
    /\ [][(~exact /\ pc = "reserve") =>
            /\ last'.op = "reserve"
            /\ last'.train = <<trains[idx]>>
            /\ slept' = slept
            /\ attempt' = attempt]_vars

\* the second train of a shortlist about to be reserved after the first
\* one was sold out
C9_Witness ==
    /\ ~exact
    /\ last.op = "reserve"
    /\ last.out = "SoldOut"
    /\ pc = "reserve"
    /\ idx = 2
    /\ trains[1] # trains[2]

\* C10: the delay of both loops is max(3, min(interval, 300)): it lies in
\* [3, 300], is the configured value when that lies in [3, 300], 3 below
\* and 300 above, and it does not change during the run.
C10_IntervalClamped ==
    /\ [][(pc = "main" /\ pc' = "search") =>
            interval' = (IF interval < 3 THEN 3
                         ELSE IF interval > 300 THEN 300 ELSE interval)]_vars
    /\ [](InLoop => interval >= 3 /\ interval <= 300)
    /\ [][InLoop => interval' = interval]_vars
    /\ [](slept # 0 => slept = interval)

\* a sleep of 300 seconds in an exact-mode run
C10_Witness ==
    /\ exact
    /\ slept = 300
    /\ attempt >= 2

\* C12: the Telegram message is sent only after a reserve call returned a
\* Reservation, at most once in a run, and only when token and chat id are
\* both there; whatever the send does (status 200 or not, exception), the
\* loop returns the Reservation and no step follows.
C12_NotifyIsolated ==
    /\ [](n_notify <= 1)
    /\ [](n_notify = 0 <=> notified = "none")
    /\ [](n_notify = 1 =>
            /\ n_reserved = 1
            /\ last.op = "reserve" /\ last.out = "ok"
            /\ telegram_token # "" /\ telegram_chat_id # "")
    /\ [](notified # "none" =>
            /\ pc = "done"
            /\ exit_code = 0
            /\ reservation = last.train /\ reservation # <<>>)
    /\ [][notified = "none"]_vars

\* a reservation whose Telegram message raised an exception
C12_Witness ==
    /\ notified = "raise"
    /\ n_reserved = 1
    /\ pc = "done"

\* the first train of found that equals the targets is sold out
TargetSoldOut ==
    /\ exact
    /\ last.op = "search" /\ last.out = "ok"
    /\ \E i \in 1..Len(found) :
          /\ found[i].dep_date = TargetDate /\ found[i].dep_time = TargetTime
          /\ found[i].dep_name = TargetDep /\ found[i].arr_name = TargetArr
          /\ ~found[i].general
          /\ \A j \in 1..(i - 1) :
                ~(/\ found[j].dep_date = TargetDate
                  /\ found[j].dep_time = TargetTime
                  /\ found[j].dep_name = TargetDep
                  /\ found[j].arr_name = TargetArr)

\* C11: exact mode.  While the target train is returned sold out, the
\* cycle makes no reserve call, sleeps and polls again; once every search
\* returns the target train with general seats and every reserve call
\* succeeds, the loop reserves the train and the run ends.
C11_ReservesOnceSeatsOpen ==
    /\ [](TargetSoldOut => pc = "sleep" /\ exit_code = Running)
    /\ [][TargetSoldOut => (last'.op = "sleep" /\ pc' = "search")]_vars
    /\ [][(exact /\ last.op = "sleep") => last'.op = "search"]_vars
    /\ (pc = "search" /\ attempt >= FreePolls)
          ~> (pc = "done" /\ n_reserved = 1 /\ exit_code = 0)

\* the target train reserved in the first poll in which it had seats, after
\* a poll that ended in the sleep
C11_Witness ==
    /\ exact
    /\ pc = "done"
    /\ n_reserved = 1
    /\ attempt = FreePolls + 1
    /\ slept # 0
    /\ IsExactTrain(reservation[1])

\* the last call was a re-login that returned true
ReloginSucceeded == last.op = "login" /\ last.out = "True"

\* C13 (as claimed): after a re-login that succeeded the loop goes to the
\* next search without the end-of-cycle sleep.
C13_NoSleepAfterRelogin ==
    [][ReloginSucceeded => last'.op # "sleep"]_vars

\* C13 (amended): after a re-login that succeeded the loop makes the
\* end-of-cycle sleep of the clamped interval, and the next search follows
\* that sleep.
C13_SleepAfterRelogin ==
    /\ [](ReloginSucceeded => pc = "sleep" /\ exit_code = Running)
    /\ [][ReloginSucceeded =>
            /\ last'.op = "sleep"
            /\ slept' = interval
            /\ pc' = "search"]_vars
    /\ [][(last.op = "sleep" /\ n_login >= 1) => last'.op = "search"]_vars

\* the sleep that followed the successful re-login of the first cycle
C13_Witness ==
    /\ attempt = 1
    /\ n_login = 1
    /\ last.op = "sleep"
    /\ pc = "search"

\* C14: an iteration that does not end the loop makes one sleep of the
\* clamped interval before the next iteration.  A search other than the
\* first is taken right after a sleep, a sleep is taken only from the end
\* of an iteration, and the step after a sleep is a search: so exactly one
\* sleep lies between two consecutive searches.
C14_OneSleepPerIteration ==
    /\ []((pc = "search" /\ attempt >= 1) =>
            /\ last.op = "sleep"
            /\ slept = interval
            /\ slept >= 3 /\ slept <= 300)
    /\ [](last.op \in {"search", "reserve", "login"} => pc # "search")
    /\ [][last'.op = "search" => (attempt = 0 \/ last.op = "sleep")]_vars
    /\ [][last.op = "sleep" => last'.op = "search"]_vars
    /\ [][last'.op = "sleep" =>
            (last.op \in {"search", "reserve", "login"} /\ pc = "sleep")]_vars

\* the third search of a range-mode run, taken after the sleep that
\* followed a sold-out shortlist
C14_Witness ==
    /\ ~exact
    /\ attempt = 3
    /\ last.op = "search"
    /\ slept = 300

\* a cycle ended by no results or by a sold-out train
EndedWithoutSeat ==
    \/ last.op = "search" /\ last.out = "NoResults"
    \/ last.op = "search" /\ last.out = "ok" /\ trains = <<>>
    \/ last.op = "reserve" /\ last.out = "SoldOut" /\ pc # "reserve"

\* C15: NoResults and SoldOut are never fatal: after an empty search or
\* shortlist, after the last train of a range-mode shortlist was sold out,
\* and after the exact-mode reserve was sold out, the loop is running, no
\* login is made, and the sleep and then a new search follow.
C15_NoSeatIsNotFatal ==
    /\ []((last.op = "reserve" /\ last.out = "SoldOut") =>
            /\ exit_code = Running
            /\ pc \in {"reserve", "sleep"}
            /\ exact => pc = "sleep")
    /\ [](EndedWithoutSeat => pc = "sleep" /\ exit_code = Running)
    /\ [][EndedWithoutSeat =>
            /\ last'.op = "sleep"
            /\ pc' = "search"
            /\ exit_code' = Running
            /\ n_login' = n_login
            /\ relogin_attempts' = relogin_attempts]_vars
    /\ [][(last.op = "sleep" /\ n_login = 0) =>
            (last'.op = "search" /\ n_login' = 0)]_vars

\* an exact-mode cycle that ended by a sold-out reserve call
C15_Witness ==
    /\ exact
    /\ last.op = "reserve"
    /\ last.out = "SoldOut"
    /\ pc = "sleep"

\* C16: relogin_attempts starts at 0, is changed only by the handling of a
\* NeedToLoginError, by +1, and is never decreased or reset: it counts all
\* NeedToLoginErrors of the run.
C16_ReloginCounterMonotone ==
    /\ [](pc = "main" => relogin_attempts = 0)
    /\ [](relogin_attempts = n_expired)
    /\ [][\/ relogin_attempts' = relogin_attempts
          \/ /\ relogin_attempts' = relogin_attempts + 1
             /\ last'.out = "NeedToLogin"]_vars
    /\ [][last'.out = "NeedToLogin" =>
            relogin_attempts' = relogin_attempts + 1]_vars

\* the second NeedToLoginError of a run, in its fourth cycle
C16_Witness ==
    /\ relogin_attempts = 2
    /\ attempt = 4
    /\ last.out = "NeedToLogin"
    /\ pc = "login"

\* the trains of found
FoundSet == {found[i] : i \in 1..Len(found)}

\* C17: reserve is called only on a train of the search result of the
\* current cycle that has general seats in it; in exact mode a target
\* train that is sold out gets no reserve call, and a cycle makes at most
\* one reserve call.
C17_ReserveOnFreshAvailable ==
    /\ [](last.op = "reserve" =>
            /\ last.train[1] \in FoundSet
            /\ last.train[1].general)
    /\ [][last'.op = "reserve" =>
            /\ last'.train[1] \in FoundSet
            /\ found' = found
            /\ attempt' = attempt
            /\ last.op \in {"search", "reserve"}]_vars
    /\ [][(exact /\ last.op = "reserve") => last'.op # "reserve"]_vars
    /\ [](TargetSoldOut => pc = "sleep")
    /\ [](pc = "search" => found = <<>>)

\* a range-mode reserve call in the second cycle, on the second train of
\* the shortlist
C17_Witness ==
    /\ ~exact
    /\ attempt = 2
    /\ last.op = "reserve"
    /\ idx = 2
    /\ pc = "sleep"

\* positions of found that pass the end-time filter and have general seats
Eligible ==
    {i \in 1..Len(found) :
        /\ found[i].general
        /\ end_time # <<>> => found[i].dep_time <= end_time[1]}

\* a departs no later than b
NotLater(a, b) ==
    \/ a.dep_date < b.dep_date
    \/ a.dep_date = b.dep_date /\ a.dep_time <= b.dep_time

\* C18: range mode, limit >= 0.  The shortlist is the first limit trains of
\* the eligible trains in ascending (dep_date, dep_time) order: it is made
\* of min(limit, number of eligible) distinct eligible positions of the
\* search result, it is sorted, and every eligible train left out departs
\* no earlier than every shortlisted one; it is empty, and the cycle ends
\* without a reserve call, exactly when nothing is eligible or limit is 0.
C18_ShortlistIsEarliest ==
    (~exact /\ limit >= 0 /\ last.op = "search" /\ last.out = "ok") =>
       /\ Len(trains) = (IF limit <= Cardinality(Eligible)
                         THEN limit ELSE Cardinality(Eligible))
       /\ IsSorted(trains)
       /\ \E f \in [1..Len(trains) -> Eligible] :
             /\ \A i, j \in 1..Len(trains) : i # j => f[i] # f[j]
             /\ \A i \in 1..Len(trains) : found[f[i]] = trains[i]
             /\ \A k \in Eligible \ {f[i] : i \in 1..Len(trains)} :
                   \A i \in 1..Len(trains) : NotLater(trains[i], found[k])
       /\ trains = <<>> <=> (Eligible = {} \/ limit = 0)
       /\ trains = <<>> => pc = "sleep"
       /\ trains # <<>> => pc = "reserve" /\ idx = 1

\* limit 1 and two eligible trains, the later one returned first and left
\* out of the shortlist, the earlier one of the next date
C18_Witness ==
    /\ ~exact
    /\ limit = 1
    /\ last.op = "search" /\ last.out = "ok"
    /\ Eligible = {1, 2}
    /\ found[1].dep_date > found[2].dep_date
    /\ found[1].dep_time < found[2].dep_time
    /\ trains = <<found[2]>>

\* s is a date in the format of the service: eight digits, the month in
\* 01..12 and the day in 01..31
IsYYYYMMDD(s) ==
    /\ Len(s) = 8
    /\ \A i \in 1..8 : s[i] \in D09
    /\ Num(SubSeq(s, 5, 6)) \in 1..12
    /\ Num(SubSeq(s, 7, 8)) \in 1..31

\* s is a time in the format of the service: six digits, the hour in
\* 00..23, the minute and the second in 00..59
IsHHMMSS(s) ==
    /\ Len(s) = 6
    /\ \A i \in 1..6 : s[i] \in D09
    /\ Num(SubSeq(s, 1, 2)) \in 0..23
    /\ Num(SubSeq(s, 3, 4)) \in 0..59
    /\ Num(SubSeq(s, 5, 6)) \in 0..59

\* the date, the time or (range mode) the end bound that was supplied is
\* not valid, blanks around it set aside
InvalidArgs ==
    \/ ~IsYYYYMMDD(Strip(args_date))
    \/ ~IsHHMMSS(Strip(args_dep_time))
    \/ ~exact /\ args_end_time # <<>> /\ ~IsHHMMSS(Strip(args_end_time))

\* every search carried a valid date and a valid time cursor
QueriesValid == \A q \in sent : IsYYYYMMDD(q[1]) /\ IsHHMMSS(q[2])

\* the end bound that filters the trains of a range-mode search is valid
EndBoundValid ==
    (sent # {} /\ ~exact /\ query[1].end_time # <<>>)
        => IsHHMMSS(query[1].end_time[1])

\* with an invalid value supplied, the loop function makes no search and
\* does not go on
InvalidFailsEarly ==
    InvalidArgs => (sent = {} /\ attempt = 0 /\ pc \in {"main", "done"})

\* all the searches of the run carried the same date and time
QueryConstant == Cardinality(sent) <= 1

\* C19: every search call of either loop carries a valid YYYYMMDD date and
\* a valid HHMMSS time cursor (and, in range mode, the end bound of the
\* filter is a valid HHMMSS); when the supplied date, time or end bound is
\* invalid the loop function fails before the first search; and the query
\* values are the same at every search of the run.
C19_ValidQueryOnly ==
    /\ QueriesValid
    /\ EndBoundValid
    /\ InvalidFailsEarly
    /\ QueryConstant

\* C20: range mode.  When reserve fails with NeedToLoginError or with an
\* unclassified failure, the other trains of the shortlist are not tried:
\* the next call is the login (counter incremented) or the sleep and then a
\* new search, never a reserve.
C20_FailureEndsShortlist ==
    /\ []((~exact /\ last.op = "reserve"
             /\ last.out \in {"NeedToLogin", "NoResults", "Other"}) =>
            /\ pc # "reserve"
            /\ last.out = "NeedToLogin" =>
                  (pc = "login" \/ (pc = "done" /\ relogin_attempts > 3))
            /\ last.out # "NeedToLogin" => pc = "sleep")
    /\ [][(~exact /\ last.op = "reserve" /\ last.out = "NeedToLogin") =>
            (last'.op = "login" /\ relogin_attempts >= 1)]_vars
    /\ [][(~exact /\ last.op = "reserve"
             /\ last.out \in {"NoResults", "Other"}) =>
            (last'.op = "sleep" /\ pc' = "search")]_vars
    /\ [][(~exact /\ last'.op = "reserve" /\ last.op = "reserve") =>
            last.out = "SoldOut"]_vars
    /\ [][(~exact /\ last'.out = "NeedToLogin") =>
            relogin_attempts' = relogin_attempts + 1]_vars

\* a NeedToLoginError of reserve on the first of two shortlisted trains
C20_Witness ==
    /\ ~exact
    /\ last.op = "reserve"
    /\ last.out = "NeedToLogin"
    /\ idx = 1
    /\ Len(trains) = 2
    /\ pc = "login"

====
